---- MODULE Spec2Model ----
(***************************************************************************)
(* Model of cpu_temp_monitor.py: the monitoring thread of HWTempMonitor    *)
(* (monitoring_loop -> check_temperatures -> update_icon -> sleep), the    *)
(* HardwareTemperatureReader it polls, and the tray icon it pushes to.     *)
(*                                                                         *)
(* Temperatures are fixed-point numbers: a value v stands for v / Scale    *)
(* degrees Celsius.  Time is in whole seconds of time.time().              *)
(***************************************************************************)
EXTENDS Integers, Sequences, FiniteSets, TLC

\* ------------------------------------------------------------------------
\* Program constants (CONFIGURATION block of the source)
\* ------------------------------------------------------------------------
TEMP_CRITICAL_CPU == 90
TEMP_CRITICAL_GPU == 85
TEMP_CRITICAL_SSD == 70
UPDATE_INTERVAL == 3
NOTIFICATION_COOLDOWN == 60
\* update_icon: "warning = display_temp is not None and display_temp >= 80"
ICON_WARNING == 80
\* check_temperatures: "self.critical_count >= 2"
DEBOUNCE_TICKS == 2

\* ------------------------------------------------------------------------
\* Bounds of the model
\* ------------------------------------------------------------------------
\* fixed-point resolution of a temperature: Scale units per degree
Scale == 10
\* value of time.time() when the monitoring thread starts
StartTime == 60
\* number of ticks the monitoring loop may start (Spec)
MaxTicks == 4
\* storage devices per reading (SpecWide)
MaxSsds == 1
\* number of ticks the monitoring loop may start (SpecShort, SpecFair)
ShortTicks == 2

\* Python None, for an absent temperature or an unset last_error
None == -1

\* d degrees and f Scale-ths of a degree
Deg(d, f) == d * Scale + f

\* ------------------------------------------------------------------------
\* Formatting
\* ------------------------------------------------------------------------
\* f"{t:.0f}": round to the nearest integer, ties to the even one
Round0f(t) ==
    LET q == t \div Scale
        r == t % Scale
    IN  IF 2 * r < Scale THEN q
        ELSE IF 2 * r > Scale THEN q + 1
        ELSE IF q % 2 = 0 THEN q ELSE q + 1

\* f"{int(temp)}": truncation
IntTrunc(t) == t \div Scale

\* one line "CPU: 92°C" of an alert body or of the tooltip
Line(label, t) == [label |-> label, deg |-> Round0f(t)]

\* ------------------------------------------------------------------------
\* Device names (sequences of characters)
\* ------------------------------------------------------------------------
NameNVMe0 == <<"N", "V", "M", "e", "0">>
NameLong == <<"S", "a", "m", "s", "u", "n", "g", " ", "S", "S", "D", " ", "9", "8", "0", " ", "P", "R", "O">>

\* ------------------------------------------------------------------------
\* What one run of the PowerShell helper can produce
\* ------------------------------------------------------------------------
\* JSON null where an object {name, temp} is expected
Null == -2

\* kind of a helper run:
\*   "timeout"    subprocess.TimeoutExpired
\*   "oserror"    any other exception of subprocess.run
\*   "silent"     empty stdout, empty stderr
\*   "stderr"     empty stdout, text on stderr
\*   "badjson"    stdout that json.loads rejects
\*   "falsy"      stdout that parses to a falsy value (null, 0, {}, [])
\*   "nonobject"  stdout that parses to a truthy value that is no object
\*   "object"     stdout that parses to a non-empty JSON object
\*   "nodll"      the helper was not run: LibreHardwareMonitorLib.dll missing
\*   "none"       no poll yet
Outcome(kind, success, cpu, gpu, ssds) ==
    [kind |-> kind, success |-> success, cpu |-> cpu, gpu |-> gpu, ssds |-> ssds]

Fail(kind) == Outcome(kind, FALSE, None, None, <<>>)

Obj(cpu, gpu, ssds) == Outcome("object", TRUE, cpu, gpu, ssds)

Ssd(name, temp) == [name |-> name, temp |-> temp]

NoPoll == Fail("none")
NoDll == Fail("nodll")

\* Outcomes of the ticks of Spec: the failure causes and a few readings
FailKinds == {"timeout", "silent", "badjson", "nonobject"}

Failures ==
    {Fail(k) : k \in FailKinds} \cup {Outcome("object", FALSE, Deg(92, 0), None, <<>>)}

Readings ==
    {Obj(None, None, <<>>),
     Obj(None, Deg(40, 0), <<>>),
     Obj(Deg(85, 0), Deg(40, 0), <<>>),
     Obj(Deg(85, 0), Deg(40, 0), <<Ssd(NameNVMe0, Deg(72, 0))>>),
     Obj(Deg(92, 0), Deg(60, 0), <<>>)}

Outcomes == Failures \cup Readings

\* Outcomes of the last tick of SpecWide: the remaining failure causes, and
\* readings with values on both sides of every threshold, with fractions
\* that round across it
WideFailures ==
    {Fail(k) : k \in {"stderr", "oserror", "falsy"}}
        \cup {Obj(Null, Deg(40, 0), <<>>), Obj(Deg(40, 0), Null, <<>>)}

WideCpuVals == {None, Deg(79, 5), Deg(80, 0), Deg(85, 0), Deg(89, 6), Deg(90, 0)}
WideGpuVals == {None, Deg(40, 0), Deg(84, 5), Deg(85, 0), Deg(90, 0)}
WideSsdEntries ==
    {Ssd(NameNVMe0, None), Ssd(NameNVMe0, Deg(69, 5)),
     Ssd(NameLong, Deg(70, 0)), Ssd(NameNVMe0, Deg(72, 0))}

SeqsUpTo(S, n) == UNION {[1..k -> S] : k \in 0..n}

WideReadings ==
    {Obj(c, g, s) : c \in WideCpuVals, g \in WideGpuVals,
                    s \in SeqsUpTo(WideSsdEntries, MaxSsds)}

WideOutcomes == WideFailures \cup WideReadings

\* ------------------------------------------------------------------------
\* HardwareTemperatureReader
\* ------------------------------------------------------------------------
\* last_error values
NoError == "None"

ErrorOf(kind) ==
    CASE kind = "timeout" -> "Timeout reading temperature"
      [] kind = "badjson" -> "JSON Parse Error"
      [] kind = "stderr"  -> "stderr text"
      [] kind = "oserror" -> "str(e)"
      [] OTHER            -> NoError

\* DLL_PATH.exists() is called in every poll and decides alone
run_powershell_AlwaysRechecks(out, available, exists, err) ==
    IF ~exists
    THEN [ran |-> FALSE, data |-> NoPoll, dll_available |-> FALSE, last_error |-> err]
    ELSE [ran |-> TRUE,
          data |-> IF out.kind \in {"falsy", "nonobject", "object"} THEN out ELSE NoPoll,
          dll_available |-> TRUE,
          last_error |-> IF ErrorOf(out.kind) # NoError THEN ErrorOf(out.kind) ELSE err]

\* _run_powershell: the data returned (NoPoll stands for None), the cached
\* dll_available and last_error afterwards, and whether the helper was run
run_powershell(out, available, exists, err) ==
    IF ~available /\ ~exists
    THEN [ran |-> FALSE, data |-> NoPoll, dll_available |-> FALSE, last_error |-> err]
    ELSE [ran |-> TRUE,
          data |-> IF out.kind \in {"falsy", "nonobject", "object"} THEN out ELSE NoPoll,
          dll_available |-> TRUE,
          last_error |-> IF ErrorOf(out.kind) # NoError THEN ErrorOf(out.kind) ELSE err]

\* the dict get_temperatures returns; present = FALSE is the empty dict {}.
\* cpu_name and gpu_name are left out: nothing reads them
Temps(cpu, gpu, ssds) == [present |-> TRUE, cpu |-> cpu, gpu |-> gpu, ssds |-> ssds]
EmptyTemps == [present |-> FALSE, cpu |-> None, gpu |-> None, ssds |-> <<>>]

\* the storage entries that have a temperature, in their original order
RECURSIVE WithTemp(_)
WithTemp(ssds) ==
    IF ssds = <<>> THEN <<>>
    ELSE IF Head(ssds).temp # None
         THEN <<Head(ssds)>> \o WithTemp(Tail(ssds))
         ELSE WithTemp(Tail(ssds))

\* get_temperatures: raised = TRUE when it raises AttributeError
\* (data.get on a value that is no object, or .get('temp') on a null cpu/gpu)
get_temperatures(data) ==
    IF data.kind \notin {"nonobject", "object"}
    THEN [raised |-> FALSE, temps |-> EmptyTemps]
    ELSE IF data.kind = "nonobject"
    THEN [raised |-> TRUE, temps |-> EmptyTemps]
    ELSE IF ~data.success
    THEN [raised |-> FALSE, temps |-> EmptyTemps]
    ELSE IF data.cpu = Null \/ data.gpu = Null
    THEN [raised |-> TRUE, temps |-> EmptyTemps]
    ELSE [raised |-> FALSE, temps |-> Temps(data.cpu, data.gpu, WithTemp(data.ssds))]

\* ------------------------------------------------------------------------
\* check_temperatures: classification and alert decision
\* ------------------------------------------------------------------------
RECURSIVE SsdLines(_)
SsdLines(ssds) ==
    IF ssds = <<>> THEN <<>>
    ELSE (IF Head(ssds).temp >= TEMP_CRITICAL_SSD * Scale
          THEN <<Line("SSD", Head(ssds).temp)>> ELSE <<>>)
         \o SsdLines(Tail(ssds))

\* the GPU is compared with the CPU's threshold
CriticalComponentsGpuAsCpu(t) ==
    (IF t.cpu # None /\ t.cpu >= TEMP_CRITICAL_CPU * Scale
     THEN <<Line("CPU", t.cpu)>> ELSE <<>>)
    \o (IF t.gpu # None /\ t.gpu >= TEMP_CRITICAL_CPU * Scale
        THEN <<Line("GPU", t.gpu)>> ELSE <<>>)
    \o SsdLines(t.ssds)

\* critical_components: one line per component at or above its threshold
CriticalComponents(t) ==
    (IF t.cpu # None /\ t.cpu >= TEMP_CRITICAL_CPU * Scale
     THEN <<Line("CPU", t.cpu)>> ELSE <<>>)
    \o (IF t.gpu # None /\ t.gpu >= TEMP_CRITICAL_GPU * Scale
        THEN <<Line("GPU", t.gpu)>> ELSE <<>>)
    \o SsdLines(t.ssds)

\* the counter is not reset by a tick without a critical component
NextCriticalCountNoReset(count, crit) == IF crit # <<>> THEN count + 1 ELSE count

\* "if critical_components: self.critical_count += 1 else: self.critical_count = 0"
NextCriticalCount(count, crit) == IF crit # <<>> THEN count + 1 ELSE 0

\* the cooldown has to be exceeded, not just reached
ShouldNotifyStrictCooldown(count, time_since_last) ==
    count >= DEBOUNCE_TICKS /\ time_since_last > NOTIFICATION_COOLDOWN

\* the debounce test is missing
ShouldNotifyNoDebounce(count, time_since_last) ==
    time_since_last >= NOTIFICATION_COOLDOWN

\* the cooldown test is missing
ShouldNotifyNoCooldown(count, time_since_last) ==
    count >= DEBOUNCE_TICKS

\* "self.critical_count >= 2 and time_since_last >= NOTIFICATION_COOLDOWN"
ShouldNotify(count, time_since_last) ==
    count >= DEBOUNCE_TICKS /\ time_since_last >= NOTIFICATION_COOLDOWN

\* what send_notification was asked to show in a tick, and whether the
\* toast was shown (toast.show() may raise; the exception is swallowed)
NoAlert == [sent |-> FALSE, shown |-> FALSE, lines |-> <<>>, critical |-> FALSE]
Alert(lines, critical, toast_ok) ==
    [sent |-> TRUE, shown |-> toast_ok, lines |-> lines, critical |-> critical]

\* without the try/except a failing toast.show() leaves send_notification
send_notification_raises_NoTry(toast_ok) == ~toast_ok

\* whether send_notification raises to its caller: "except Exception" prints
\* the error of the toast backend and the function returns normally
send_notification_raises(toast_ok) == FALSE

\* ------------------------------------------------------------------------
\* update_icon and create_temp_icon
\* ------------------------------------------------------------------------
\* the warning colour is tested before the critical one
create_temp_icon_WarningFirst(temp, warning, critical, no_data) ==
    [color |-> IF no_data THEN "grey"
               ELSE IF warning THEN "amber"
               ELSE IF critical THEN "red"
               ELSE "green",
     text |-> IF temp # None THEN IntTrunc(temp) ELSE None]

\* the glyph: background colour and text (None stands for "?")
create_temp_icon(temp, warning, critical, no_data) ==
    [color |-> IF no_data THEN "grey"
               ELSE IF critical THEN "red"
               ELSE IF warning THEN "amber"
               ELSE "green",
     text |-> IF temp # None THEN IntTrunc(temp) ELSE None]

\* "display_temp = self.temps.get('cpu')", else the GPU temperature
DisplayTemp(t) == IF t.cpu # None THEN t.cpu ELSE t.gpu

NewIcon(t) ==
    LET display_temp == DisplayTemp(t)
        no_data == display_temp = None
        warning == display_temp # None /\ display_temp >= ICON_WARNING * Scale
        critical == display_temp # None /\ display_temp >= TEMP_CRITICAL_CPU * Scale
    IN  create_temp_icon(display_temp, warning, critical, no_data)

\* "name = ssd['name'][:15] if len(ssd['name']) > 15 else ssd['name']": the
\* value the tooltip loop computes for every storage entry; the line the
\* loop appends does not read it
ShortName(name) == IF Len(name) > 15 THEN SubSeq(name, 1, 15) ELSE name

RECURSIVE SsdTooltip(_)
SsdTooltip(ssds) ==
    IF ssds = <<>> THEN <<>>
    ELSE <<Line("SSD", Head(ssds).temp)>> \o SsdTooltip(Tail(ssds))

TooltipLines(t) ==
    (IF t.cpu # None THEN <<Line("CPU", t.cpu)>> ELSE <<>>)
    \o (IF t.gpu # None THEN <<Line("GPU", t.gpu)>> ELSE <<>>)
    \o SsdTooltip(t.ssds)

\* " | ".join(lines) if lines else "No data"
NoDataTitle == <<[label |-> "No data", deg |-> None]>>
InitialTitle == <<[label |-> "HW Temp Monitor", deg |-> None]>>
NewTitle(t) == IF TooltipLines(t) # <<>> THEN TooltipLines(t) ELSE NoDataTitle

\* ------------------------------------------------------------------------
\* State
\* ------------------------------------------------------------------------
VARIABLES
    running,                 \* HWTempMonitor.running
    temps,                   \* HWTempMonitor.temps
    last_notification_time,  \* HWTempMonitor.last_notification_time
    error_shown,             \* HWTempMonitor.error_shown
    critical_count,          \* HWTempMonitor.critical_count
    dll_available,           \* HardwareTemperatureReader.dll_available
    dll_exists,              \* DLL_PATH.exists() at the time of the latest poll
    last_error,              \* HardwareTemperatureReader.last_error
    icon,                    \* self.icon.icon, the glyph shown in the tray
    title,                   \* self.icon.title, the tooltip shown in the tray
    icon_stopped,            \* self.icon.stop() was called
    pc,                      \* position of the monitoring thread
    ticks,                   \* ticks started by monitoring_loop
    now,                     \* time.time()
    poll,                    \* what the poll of the latest tick produced
    alert,                   \* what the latest tick passed to send_notification
    printed,                 \* the latest tick printed "Error: <last_error>"
    caught,                  \* what raised into monitoring_loop in the latest tick
    alert_times              \* the times at which an alert was sent, in order

vars == <<running, temps, last_notification_time, error_shown, critical_count,
          dll_available, dll_exists, last_error, icon, title, icon_stopped,
          pc, ticks, now, poll, alert, printed, caught, alert_times>>

\* extra seconds between two ticks on top of UPDATE_INTERVAL: the duration of
\* the poll and of anything that holds the thread up
Stalls == {0, NOTIFICATION_COOLDOWN - UPDATE_INTERVAL - 1,
           NOTIFICATION_COOLDOWN - UPDATE_INTERVAL}

\* HWTempMonitor.__init__ and run(): the state in which the thread starts
Init ==
    /\ running = TRUE
    /\ temps = EmptyTemps
    /\ last_notification_time = 0
    /\ error_shown = FALSE
    /\ critical_count = 0
    /\ dll_available \in BOOLEAN
    /\ dll_exists = dll_available
    /\ last_error = NoError
    /\ icon = create_temp_icon(None, FALSE, FALSE, TRUE)
    /\ title = InitialTitle
    /\ icon_stopped = FALSE
    /\ pc = "test"
    /\ ticks = 0
    /\ now = StartTime
    /\ poll = NoPoll
    /\ alert = NoAlert
    /\ printed = FALSE
    /\ caught = "none"
    /\ alert_times = <<>>

\* ------------------------------------------------------------------------
\* monitoring_loop
\* ------------------------------------------------------------------------
\* without the try/except the exception ends the thread
AfterRaiseUncaught == "done"

\* where the thread continues when the tick body raised: "except Exception"
\* prints the error and falls through to time.sleep
AfterRaise == "sleep"

\* "while True:": the loop test does not read self.running
LoopEnterAlways(max) ==
    /\ pc = "test"
    /\ ticks < max
    /\ pc' = "check"
    /\ ticks' = ticks + 1
    /\ UNCHANGED <<running, temps, last_notification_time, error_shown,
                   critical_count, dll_available, dll_exists,
                   last_error, icon, title,
                   icon_stopped, now, poll, alert, printed, caught, alert_times>>

\* "while self.running:" found true: a tick starts
LoopEnter(max) ==
    /\ pc = "test"
    /\ running
    /\ ticks < max
    /\ pc' = "check"
    /\ ticks' = ticks + 1
    /\ UNCHANGED <<running, temps, last_notification_time, error_shown,
                   critical_count, dll_available, dll_exists,
                   last_error, icon, title,
                   icon_stopped, now, poll, alert, printed, caught, alert_times>>

\* "while self.running:" found false: the thread ends
LoopExit ==
    /\ pc = "test"
    /\ ~running
    /\ pc' = "done"
    /\ UNCHANGED <<running, temps, last_notification_time, error_shown,
                   critical_count, dll_available, dll_exists,
                   last_error, icon, title,
                   icon_stopped, ticks, now, poll, alert, printed, caught,
                   alert_times>>

\* check_temperatures, with the poll it makes.  out is what the helper
\* would produce, exists is DLL_PATH.exists(), toast_ok is whether
\* toast.show() succeeds.  E is what DLL_PATH.exists() can be once
\* dll_available is true, when the code no longer calls it.  An exception leaving send_notification would
\* leave check_temperatures before last_notification_time is assigned
CheckTemperatures(S, E) ==
    /\ pc = "check"
    /\ \E out \in S, exists \in (IF dll_available THEN E ELSE BOOLEAN),
          toast_ok \in BOOLEAN :
        LET r == run_powershell(out, dll_available, exists, last_error)
            g == get_temperatures(r.data)
            first_failure == ~g.temps.present /\ ~error_shown
            crit == CriticalComponents(g.temps)
            count == NextCriticalCount(critical_count, crit)
            fire == ShouldNotify(count, now - last_notification_time)
            toast_raised == fire /\ send_notification_raises(toast_ok)
        IN  /\ dll_available' = r.dll_available
            /\ dll_exists' = exists
            /\ last_error' = r.last_error
            /\ poll' = IF r.ran THEN out ELSE NoDll
            /\ IF g.raised
               THEN /\ caught' = "check_temperatures"
                    /\ pc' = AfterRaise
                    /\ alert' = NoAlert
                    /\ printed' = FALSE
                    /\ UNCHANGED <<temps, error_shown, critical_count,
                                   last_notification_time, alert_times>>
               ELSE /\ temps' = g.temps
                    /\ pc' = IF toast_raised THEN AfterRaise ELSE "icon"
                    /\ caught' = IF toast_raised THEN "check_temperatures" ELSE "none"
                    /\ IF first_failure
                       THEN /\ printed' = (r.last_error # NoError)
                            /\ error_shown' = TRUE
                            /\ alert' = NoAlert
                            /\ UNCHANGED <<critical_count, last_notification_time,
                                           alert_times>>
                       ELSE /\ printed' = FALSE
                            /\ error_shown' = IF g.temps.present THEN FALSE ELSE error_shown
                            /\ critical_count' = count
                            /\ alert' = IF fire THEN Alert(crit, TRUE, toast_ok) ELSE NoAlert
                            /\ last_notification_time' =
                                   IF fire /\ ~toast_raised THEN now
                                   ELSE last_notification_time
                            /\ alert_times' =
                                   IF fire THEN Append(alert_times, now) ELSE alert_times
    /\ UNCHANGED <<running, icon, title, icon_stopped, ticks, now>>

\* update_icon up to "self.icon.icon = new_icon"; raises is an exception of
\* the drawing or tray backend.  self.icon is set by run() before the thread
\* starts, so the "if self.icon is None: return" branch is never taken
UpdateIconGlyph ==
    /\ pc = "icon"
    /\ \E raises \in BOOLEAN :
        IF raises
        THEN /\ caught' = "update_icon"
             /\ pc' = AfterRaise
             /\ UNCHANGED icon
        ELSE /\ icon' = NewIcon(temps)
             /\ pc' = "title"
             /\ UNCHANGED caught
    /\ UNCHANGED <<running, temps, last_notification_time, error_shown,
                   critical_count, dll_available, dll_exists,
                   last_error, title,
                   icon_stopped, ticks, now, poll, alert, printed, alert_times>>

\* update_icon from the tooltip lines to "self.icon.title = ..."
UpdateIconTitle ==
    /\ pc = "title"
    /\ title' = NewTitle(temps)
    /\ pc' = "sleep"
    /\ UNCHANGED <<running, temps, last_notification_time, error_shown,
                   critical_count, dll_available, dll_exists,
                   last_error, icon,
                   icon_stopped, ticks, now, poll, alert, printed, caught,
                   alert_times>>

\* time.sleep(UPDATE_INTERVAL)
Sleep ==
    /\ pc = "sleep"
    /\ \E stall \in Stalls : now' = now + UPDATE_INTERVAL + stall
    /\ pc' = "test"
    /\ UNCHANGED <<running, temps, last_notification_time, error_shown,
                   critical_count, dll_available, dll_exists,
                   last_error, icon, title,
                   icon_stopped, ticks, poll, alert, printed, caught,
                   alert_times>>

\* ------------------------------------------------------------------------
\* quit_app, called on the tray thread from the "Quit" menu item
\* ------------------------------------------------------------------------
\* quit_app also clears the alert state of the monitoring thread
QuitAppResetsAlertState ==
    /\ ~icon_stopped
    /\ running' = FALSE
    /\ icon_stopped' = TRUE
    /\ critical_count' = 0
    /\ last_notification_time' = 0
    /\ UNCHANGED <<temps, error_shown, dll_available, dll_exists, last_error,
                   icon, title, pc, ticks, now, poll, alert, printed, caught,
                   alert_times>>

QuitApp ==
    /\ ~icon_stopped
    /\ running' = FALSE
    /\ icon_stopped' = TRUE
    /\ UNCHANGED <<temps, last_notification_time, error_shown, critical_count,
                   dll_available, dll_exists, last_error, icon, title, pc, ticks,
                   now,
                   poll, alert, printed, caught, alert_times>>

\* ------------------------------------------------------------------------
\* Specifications
\* ------------------------------------------------------------------------
Next ==
    \/ LoopEnter(MaxTicks)
    \/ LoopExit
    \/ CheckTemperatures(Outcomes, {TRUE})
    \/ UpdateIconGlyph
    \/ UpdateIconTitle
    \/ Sleep
    \/ QuitApp

Spec == Init /\ [][Next]_vars

\* Short runs in which the DLL can also be removed after it was found
NextShort ==
    \/ LoopEnter(ShortTicks)
    \/ LoopExit
    \/ CheckTemperatures(Outcomes, BOOLEAN)
    \/ UpdateIconGlyph
    \/ UpdateIconTitle
    \/ Sleep
    \/ QuitApp

SpecShort == Init /\ [][NextShort]_vars

\* The tick that can first fire an alert (tick number DEBOUNCE_TICKS) draws
\* its reading from WideOutcomes, the ticks before it from Outcomes
NextWide ==
    \/ LoopEnter(DEBOUNCE_TICKS)
    \/ LoopExit
    \/ CheckTemperatures(IF ticks < DEBOUNCE_TICKS THEN Outcomes ELSE WideOutcomes,
                         {TRUE})
    \/ UpdateIconGlyph
    \/ UpdateIconTitle
    \/ Sleep
    \/ QuitApp

SpecWide == Init /\ [][NextWide]_vars

\* ------------------------------------------------------------------------
\* Vocabulary of the properties, stated on what the poll produced
\* ------------------------------------------------------------------------
\* the poll produced a reading: a JSON object with success set and cpu, gpu
\* objects
IsReading(o) ==
    o.kind = "object" /\ o.success /\ o.cpu # Null /\ o.gpu # Null

\* the poll failed (there was a poll, and it produced no reading)
PollFailed(o) == o.kind # "none" /\ ~IsReading(o)

\* the storage entries of a reading that carry a temperature
SsdsOf(o) == SelectSeq(o.ssds, LAMBDA e : e.temp # None)

\* a reading with at least one component present
HasComponent(o) ==
    IsReading(o) /\ (o.cpu # None \/ o.gpu # None \/ SsdsOf(o) # <<>>)

\* the lines the property expects for the critical components of a reading:
\* CPU at 90 or more, GPU at 85 or more, every storage device at 70 or more
ExpectedCriticalLines(o) ==
    LET hot == SelectSeq(SsdsOf(o), LAMBDA e : e.temp >= 70 * Scale)
    IN  (IF o.cpu # None /\ o.cpu >= 90 * Scale
         THEN <<[label |-> "CPU", deg |-> Round0f(o.cpu)]>> ELSE <<>>)
        \o (IF o.gpu # None /\ o.gpu >= 85 * Scale
            THEN <<[label |-> "GPU", deg |-> Round0f(o.gpu)]>> ELSE <<>>)
        \o [i \in 1..Len(hot) |-> [label |-> "SSD", deg |-> Round0f(hot[i].temp)]]

\* the tick's reading has a component at or above its critical threshold
ReadingCritical(o) == IsReading(o) /\ ExpectedCriticalLines(o) # <<>>

\* a step of check_temperatures
CheckStep == pc = "check" /\ pc' # "check"

\* ------------------------------------------------------------------------
\* C1
\* ------------------------------------------------------------------------
\* C1: a tick sends a critical alert only if, in that tick, the reading has
\* a component at or above its critical threshold (so the alert body has at
\* least one line), critical_count after the update is at least 2, and the
\* current time minus last_notification_time is at least 60 s.
C1_AlertOnlyWhenDue ==
    [][(CheckStep /\ alert'.sent) =>
          /\ ReadingCritical(poll')
          /\ alert'.lines # <<>>
          /\ alert'.critical
          /\ critical_count' >= 2
          /\ now - last_notification_time >= 60]_vars

\* an alert was sent by a tick later than the second
C1_Witness == alert.sent /\ ticks > 2 /\ pc = "icon"

\* ------------------------------------------------------------------------
\* C2
\* ------------------------------------------------------------------------
\* C2: an alert fires at a tick only if the immediately preceding tick
\* (reading, empty reading or failed poll) also had a critical component.
\* poll is the outcome of the preceding tick, poll' that of this one.
C2_AlertNeedsCriticalPredecessor ==
    [][(CheckStep /\ alert'.sent) => ReadingCritical(poll)]_vars

\* ------------------------------------------------------------------------
\* C3
\* ------------------------------------------------------------------------
\* C3: after every tick critical_count is its previous value plus 1 if the
\* tick's reading has a critical component, and 0 otherwise (every failed
\* poll and every reading without components included).
C3_CountFollowsReading ==
    [][CheckStep =>
          critical_count' = IF ReadingCritical(poll') THEN critical_count + 1 ELSE 0]_vars

\* ------------------------------------------------------------------------
\* C4
\* ------------------------------------------------------------------------
\* C4: if an alert fires at a tick with timestamp t, no alert fires at a
\* later tick whose timestamp is below t + 60 s.
C4_Cooldown ==
    \A i, j \in 1..Len(alert_times) :
        i < j => alert_times[j] >= alert_times[i] + 60

\* a tick inside the cooldown of an earlier alert, with a critical component
\* and a debounce count of at least 2, that sent no alert
C4_Witness ==
    /\ pc = "icon"
    /\ alert_times # <<>>
    /\ now < alert_times[Len(alert_times)] + 60
    /\ now > alert_times[Len(alert_times)]
    /\ ReadingCritical(poll)
    /\ critical_count >= 2
    /\ ~alert.sent

\* ------------------------------------------------------------------------
\* C5
\* ------------------------------------------------------------------------
\* C5: no alert is sent in a tick whose poll failed or whose reading has no
\* component present, whatever critical_count, error_shown and
\* last_notification_time the earlier ticks left.
C5_NoAlertWithoutComponent == alert.sent => HasComponent(poll)

\* a tick without a component that found critical_count at 2 or more and
\* the cooldown elapsed
C5_Witness ==
    /\ pc = "icon"
    /\ poll.kind # "none"
    /\ ~HasComponent(poll)
    /\ critical_count >= 2
    /\ now - last_notification_time >= 60
    /\ ~alert.sent

\* ------------------------------------------------------------------------
\* C6
\* ------------------------------------------------------------------------
\* C6: for every reading the critical components of the tick are exactly
\* the CPU if present and >= 90, the GPU if present and >= 85 and every
\* storage device with a temperature >= 70; they alone drive the debounce
\* counter and the alert body (one line each, in the order CPU, GPU,
\* storage devices), whatever the glyph shows.
C6_CriticalSet ==
    [][(CheckStep /\ IsReading(poll')) =>
          /\ critical_count' =
                 IF ExpectedCriticalLines(poll') # <<>> THEN critical_count + 1 ELSE 0
          /\ alert'.sent => alert'.lines = ExpectedCriticalLines(poll')]_vars

\* cpu = 85, gpu = 40 and one SSD at 72 on two consecutive ticks: the second
\* tick alerts with the SSD as its only line while the glyph is amber
C6_Witness ==
    /\ pc = "title"
    /\ poll = Obj(Deg(85, 0), Deg(40, 0), <<Ssd(NameNVMe0, Deg(72, 0))>>)
    /\ alert.sent
    /\ alert.lines = <<[label |-> "SSD", deg |-> 72]>>
    /\ icon.color = "amber"

\* ------------------------------------------------------------------------
\* C7
\* ------------------------------------------------------------------------
\* the value update_icon is meant to display: CPU if present, else GPU
ExpectedDisplay(t) ==
    IF t.cpu # None THEN t.cpu ELSE IF t.gpu # None THEN t.gpu ELSE None

C8_NoDataAfterFailedTick ==
    (pc = "sleep" /\ poll.kind # "none" /\ ~HasComponent(poll)
        /\ caught # "update_icon") =>
        /\ icon = [color |-> "grey", text |-> None]
        /\ title \in {NoDataTitle, InitialTitle}

\* ------------------------------------------------------------------------
\* C9
\* ------------------------------------------------------------------------
\* the tick logged an error: check_temperatures printed last_error, or
\* monitoring_loop printed the exception check_temperatures raised
Logged(p, c) == p \/ c = "check_temperatures"

\* C9: a failure is logged on the first failed tick of every run of failed
\* polls and on no other tick, whatever the cause; error_shown is true
\* after a tick iff the tick's poll failed.
C9_LogOncePerFailureRun ==
    [][CheckStep =>
          /\ Logged(printed', caught') = (PollFailed(poll') /\ ~PollFailed(poll))
          /\ error_shown' = PollFailed(poll')]_vars

\* ------------------------------------------------------------------------
\* C10
\* ------------------------------------------------------------------------
\* C10: an exception raised in the tick body never ends monitoring_loop: the
\* thread goes on to sleep at least UPDATE_INTERVAL and to the loop test;
\* the thread ends only at the loop test, with running false.
C10_LoopSurvivesExceptions ==
    [][pc' # pc =>
          /\ pc' = "done" => (pc = "test" /\ ~running)
          /\ (caught' # "none" /\ pc \in {"check", "icon", "title"}) => pc' = "sleep"
          /\ pc = "sleep" => (pc' = "test" /\ now' >= now + UPDATE_INTERVAL)
          /\ (pc = "test" /\ running) => pc' = "check"]_vars

\* a tick has started after a tick whose body raised
C10_Witness == pc = "check" /\ caught # "none" /\ running

\* ------------------------------------------------------------------------
\* C11
\* ------------------------------------------------------------------------
\* C11: get_temperatures never raises to its caller: whatever the helper
\* produced, check_temperatures is not left by an exception, and after a
\* failed poll temps is the empty result.
C11_GetTemperaturesNeverRaises ==
    /\ caught # "check_temperatures"
    /\ PollFailed(poll) => temps = EmptyTemps

\* ------------------------------------------------------------------------
\* C12
\* ------------------------------------------------------------------------
\* the characters of the label a tooltip line starts with
LabelChars(line) ==
    CASE line.label = "CPU" -> <<"C", "P", "U">>
      [] line.label = "GPU" -> <<"G", "P", "U">>
      [] line.label = "SSD" -> <<"S", "S", "D">>
      [] OTHER -> <<>>

\* C12: the tooltip a tick has written has one entry per present component,
\* CPU first, then GPU, then the storage devices in their original order,
\* every storage entry carrying its device's name cut to at most 15
\* characters; it is "No data" exactly when no component is present.
C12_TooltipEntries ==
    (pc = "sleep" /\ caught = "none") =>
        LET front == (IF temps.cpu # None THEN <<Line("CPU", temps.cpu)>> ELSE <<>>)
                     \o (IF temps.gpu # None THEN <<Line("GPU", temps.gpu)>> ELSE <<>>)
            n == Len(temps.ssds)
            none_present == front = <<>> /\ n = 0
        IN  /\ (title = NoDataTitle) = none_present
            /\ ~none_present =>
                  /\ Len(title) = Len(front) + n
                  /\ SubSeq(title, 1, Len(front)) = front
                  /\ \A i \in 1..n :
                        /\ LabelChars(title[Len(front) + i]) = ShortName(temps.ssds[i].name)
                        /\ Len(ShortName(temps.ssds[i].name)) <= 15
                        /\ title[Len(front) + i].deg = Round0f(temps.ssds[i].temp)

\* ------------------------------------------------------------------------
\* C13
\* ------------------------------------------------------------------------
\* C13: a tick that fires an alert does not reset critical_count (it is the
\* previous count plus 1) and sets last_notification_time to the tick's
\* time.  So while every tick is critical, the alert recurs: after an alert
\* at time t, a critical tick that follows a critical tick fires no alert
\* before t + 60 s and fires one as soon as its time is at least t + 60 s,
\* without waiting for two more ticks.
C13_AlertsRecur ==
    [][CheckStep =>
          LET last == alert_times[Len(alert_times)]
              sustained == /\ ReadingCritical(poll)
                           /\ ReadingCritical(poll')
                           /\ alert_times # <<>>
          IN  /\ alert'.sent =>
                    /\ critical_count' = critical_count + 1
                    /\ last_notification_time' = now
              /\ (sustained /\ now >= last + 60) => alert'.sent
              /\ (sustained /\ now < last + 60) => ~alert'.sent]_vars

\* a second alert exactly 60 s after the first, in one unbroken critical run
C13_Witness ==
    /\ Len(alert_times) = 2
    /\ alert_times[2] = alert_times[1] + 60
    /\ critical_count = 3
    /\ alert.sent
    /\ pc = "icon"

\* ------------------------------------------------------------------------
\* C14
\* ------------------------------------------------------------------------
\* C14: last_notification_time changes only in a tick whose critical alert
\* was sent and actually shown by the toast backend; a tick without an
\* alert, and a tick whose toast.show() raised, leave it as it was.
C14_CooldownStartsOnDelivery ==
    [][last_notification_time' # last_notification_time =>
          (CheckStep /\ alert'.sent /\ alert'.shown)]_vars

\* ------------------------------------------------------------------------
\* C15
\* ------------------------------------------------------------------------
\* C15: the text of the glyph update_icon has pushed is "?" exactly when the
\* display value (CPU if present, else GPU) is absent, and otherwise an
\* integer nearest to the display value: it is at most half a degree away
\* from it (89.6 gives 90, as in the tooltip).
C15_GlyphLabelRounded ==
    (pc = "title" \/ (pc = "sleep" /\ caught = "none")) =>
        LET dv == ExpectedDisplay(temps)
        IN  /\ (icon.text = None) <=> (dv = None)
            /\ dv # None =>
                  /\ 2 * (icon.text * Scale - dv) <= Scale
                  /\ 2 * (dv - icon.text * Scale) <= Scale

\* ------------------------------------------------------------------------
\* C16
\* ------------------------------------------------------------------------
\* C16: when the toast backend raises while an alert is being shown, the
\* exception does not leave send_notification: check_temperatures returns
\* normally, update_icon runs next in the same tick, and unless update_icon
\* itself fails it pushes the tick's glyph and tooltip before the thread
\* goes to sleep.
C16_ToastErrorSwallowed ==
    [][(alert'.sent /\ ~alert'.shown /\ pc' # pc) =>
          /\ CheckStep => (pc' = "icon" /\ caught' = "none")
          /\ (pc = "icon" /\ caught' = "none") =>
                 (pc' = "title" /\ icon' = NewIcon(temps))
          /\ pc = "title" => (pc' = "sleep" /\ title' = NewTitle(temps))]_vars

\* the next tick has started after a tick whose toast failed and whose
\* glyph and tooltip were pushed
C16_Witness ==
    /\ pc = "check"
    /\ alert.sent /\ ~alert.shown
    /\ caught = "none"
    /\ icon = NewIcon(temps)
    /\ title = NewTitle(temps)
    /\ title # NoDataTitle

\* ------------------------------------------------------------------------
\* C17
\* ------------------------------------------------------------------------
\* the steps of the monitoring thread other than the start of a tick
ThreadStep ==
    \/ LoopExit
    \/ CheckTemperatures(Outcomes, BOOLEAN)
    \/ UpdateIconGlyph
    \/ UpdateIconTitle
    \/ Sleep

\* The monitoring thread is an operating-system thread: it is scheduled
\* again and again, the poll ends within the helper's timeout and
\* time.sleep returns, so a step of it that stays possible is taken
SpecFair == SpecShort /\ WF_vars(ThreadStep)

\* C17: no tick begins once running is false (the loop test that finds it
\* false ends the thread), so at most the tick in progress when quit_app ran
\* completes; and once running is false the thread eventually ends.
C17_QuitStopsLoop ==
    /\ [][ticks' # ticks => running]_vars
    /\ [][(~running /\ pc = "test" /\ pc' # pc) => pc' = "done"]_vars
    /\ (~running ~> pc = "done")

\* the thread has ended after two ticks whose results were pushed
C17_Witness ==
    /\ pc = "done"
    /\ ~running
    /\ ticks = 2
    /\ temps.present
    /\ title = NewTitle(temps)

\* ------------------------------------------------------------------------
\* C18
\* ------------------------------------------------------------------------
\* every value self.temps can take
AllTemps == {get_temperatures(o).temps : o \in Outcomes \cup WideOutcomes}

\* C18: whenever the tray thread looks, the glyph and the tooltip it finds
\* were made from one and the same self.temps (the tooltip set by run()
\* before the first tick goes with any glyph).
C18_GlyphTooltipOneSnapshot ==
    \/ title = InitialTitle
    \/ \E t \in AllTemps : icon = NewIcon(t) /\ title = NewTitle(t)

\* ------------------------------------------------------------------------
\* C19
\* ------------------------------------------------------------------------
\* C19: a poll that finds dll_available false looks for the file: it runs
\* the helper and sets dll_available exactly when the file exists, and does
\* neither while the file is absent.  A poll that finds dll_available true
\* leaves it true and runs the helper whether or not the file still exists.
C19_DllCache ==
    [][CheckStep =>
          /\ ~dll_available =>
                 /\ dll_available' = dll_exists'
                 /\ (poll'.kind # "nodll") = dll_exists'
          /\ dll_available =>
                 /\ dll_available'
                 /\ poll'.kind # "nodll"]_vars

\* the helper was run and gave a reading although the file, found by an
\* earlier poll, is gone
C19_Witness ==
    /\ pc = "icon"
    /\ dll_available
    /\ ~dll_exists
    /\ IsReading(poll)
    /\ ticks = 2

\* ------------------------------------------------------------------------
\* C20
\* ------------------------------------------------------------------------
\* C20: the ticks run one after the other on the one monitoring thread: the
\* poll is made only by a step of check_temperatures, a tick starts only
\* from the loop test, the loop test is reached only from the sleep, and
\* the sleep only after the tick's alert decision and glyph update are over
\* (or the tick body raised).  critical_count and last_notification_time are
\* written by check_temperatures alone, never by quit_app.
C20_SequentialTicksSingleOwner ==
    /\ [][pc' # pc =>
             /\ pc' = "check" => pc = "test"
             /\ pc' = "icon" => pc = "check"
             /\ pc' = "title" => pc = "icon"
             /\ pc' = "sleep" => (pc = "title" \/ caught' # "none")
             /\ pc' = "test" => pc = "sleep"]_vars
    /\ [][poll' # poll => CheckStep]_vars
    /\ [][(critical_count' # critical_count
             \/ last_notification_time' # last_notification_time) => CheckStep]_vars

\* quit_app ran while the second tick was about to poll; the count of the
\* first tick is still there
C20_Witness ==
    /\ pc = "check"
    /\ ~running
    /\ ticks = 2
    /\ critical_count = 1

====
